---- MODULE Spec2Model ----
(***************************************************************************)
(* Model of the acceleration-index form widgets:                           *)
(*   - AccelerationDataSourceSelector (source_selector.tsx): three         *)
(*     cascading combo boxes whose option lists are loaded by a listing    *)
(*     request and by submit-then-poll query jobs;                         *)
(*   - AddFieldsModal: the "Add fields" modal of the skipping index.       *)
(*                                                                         *)
(* React semantics that the model keeps:                                   *)
(*   - every function of a render closes over the state of THAT render:    *)
(*     a request carries the loadingComboBoxes object of the render that   *)
(*     dispatched it, and its callbacks write `{...loadingComboBoxes, k}`  *)
(*     from that snapshot;                                                 *)
(*   - the passive effects of one commit run together, in source order,    *)
(*     after the commit; their state updates are batched, so the last      *)
(*     plain (non-functional) set of a state cell wins;                    *)
(*   - a promise callback may run between a commit and its effects.        *)
(***************************************************************************)
EXTENDS Integers, Sequences, FiniteSets, TLC

\* ---------------------------------------------------------------- bounds
MaxJobs == 3          \* query jobs dispatched in one behaviour
MaxRows == 2          \* rows of one job result
MaxConnections == 2   \* entries of one datasource listing response
MaxFields == 3        \* length of dataTableFields
MaxSelected == 2      \* rows ticked in the modal at once

\* ------------------------------------------------------------ value sets
Labels == {"A", "B"}                 \* non-empty names
Range(s) == {s[i] : i \in DOMAIN s}
SeqsUpTo(S, n) == UNION {[1..k -> S] : k \in 0..n}

\* Characters and String.prototype.toUpperCase on the ASCII letters used.
UpperOf(c) ==
  CASE c = "s" -> "S" [] c = "g" -> "G" [] c = "l" -> "L" [] c = "u" -> "U"
    [] c = "e" -> "E" [] c = "p" -> "P" [] c = "r" -> "R" [] c = "o" -> "O"
    [] c = "m" -> "M" [] OTHER -> c
toUpperCase(s) == [i \in DOMAIN s |-> UpperOf(s[i])]

S3GLUE == <<"S", "3", "G", "L", "U", "E">>
Connectors == {S3GLUE,
               <<"s", "3", "g", "l", "u", "e">>,
               <<"S", "3", "G", "l", "u", "e">>,
               <<"p", "r", "o", "m">>,
               <<"S", "3">>}
Connections == [name : Labels, connector : Connectors]
Responses == SeqsUpTo(Connections, MaxConnections)

\* A result row is <<namespace, name>>: column 0 and column 1 of the source.
Rows == {<<"A", "B">>, <<"B", "A">>}
ResultSets == SeqsUpTo(Rows, MaxRows)

Option(l) == [label |-> l]
NoFlags == [dataSource |-> FALSE, database |-> FALSE, dataTable |-> FALSE]
NoEffects == [deps |-> {}, closure |-> NoFlags]

VARIABLES
  accelerationFormData,    \* the parent's form state (props)
  dataConnections, selectedDataConnection,
  databases, selectedDatabase,
  tables, selectedTable,
  loadingComboBoxes,
  effects,                 \* passive effects of the last commit, not yet run,
                           \* and the loadingComboBoxes that commit rendered
  listing,                 \* the http.get of loadDataSource
  jobs,                    \* query jobs whose terminal callback has not fired
  nJobs,                   \* jobs dispatched so far
  toasts,                  \* messages handed to setToast by the last step
  isAddModalVisible, selectedFields, items,
  ev,                      \* the step that led to this state
  newest                   \* per selector, the highest id among the refreshes
                           \* whose poll has delivered SUCCESS

vars == <<accelerationFormData, dataConnections, selectedDataConnection,
          databases, selectedDatabase, tables, selectedTable,
          loadingComboBoxes, effects, listing, jobs, nJobs, toasts,
          isAddModalVisible, selectedFields, items, ev, newest>>

selectorVars == <<dataConnections, selectedDataConnection, databases,
                  selectedDatabase, tables, selectedTable, loadingComboBoxes,
                  effects, listing, jobs, nJobs, toasts>>
modalVars == <<isAddModalVisible, selectedFields, items>>

NoJob == [id |-> 0, kind |-> "none", stage |-> "none", lc |-> NoFlags,
          query |-> <<>>, datasource |-> "", jobId |-> "none"]
Ev(op, kind, job, status, arg) ==
  [op |-> op, kind |-> kind, job |-> job, status |-> status, arg |-> arg]

\* validateDataSource of ../create/utils: an error for a blank name.
validateDataSource(name) == IF name = "" THEN "invalid" ELSE ""

\* ===================================================== source_selector.tsx
\* const errorMessage of loadDatabases / loadTables
errorMessage(kind) ==
  IF kind = "database" THEN "ERROR: failed to load databases"
  ELSE "ERROR: failed to load tables"

\* The mutable cells that the effects of one commit update together.
Cells == [lc |-> loadingComboBoxes, listing |-> listing, jobs |-> jobs,
          nJobs |-> nJobs]

NewJob(st, kind, query) ==
  [id |-> st.nJobs + 1, kind |-> kind, stage |-> "getJobId", lc |-> effects.closure,
   query |-> query, datasource |-> accelerationFormData.dataSource,
   jobId |-> "none"]

\* Mutant of loadDataSource: the flag is left on for the callbacks to clear.
loadDataSourceHoldsFlag(st) ==
  LET s1 == [st EXCEPT !.lc = [effects.closure EXCEPT !.dataSource = TRUE]]
  IN  [s1 EXCEPT !.listing = "pending"]

\* loadDataSource: flag on, request issued, flag off in the same call.
loadDataSource(st) ==
  LET s1 == [st EXCEPT !.lc = [effects.closure EXCEPT !.dataSource = TRUE]]
      s2 == [s1 EXCEPT !.listing = "pending"]
  IN  [s2 EXCEPT !.lc = [effects.closure EXCEPT !.dataSource = FALSE]]

\* loadDatabases up to the getJobId call.
loadDatabases(st) ==
  [st EXCEPT !.lc = [effects.closure EXCEPT !.database = TRUE],
             !.jobs = @ \cup {NewJob(st, "database",
                 <<"SHOW SCHEMAS IN", accelerationFormData.dataSource>>)},
             !.nJobs = @ + 1]

\* loadTables up to the getJobId call.
loadTables(st) ==
  [st EXCEPT !.lc = [effects.closure EXCEPT !.dataTable = TRUE],
             !.jobs = @ \cup {NewJob(st, "dataTable",
                 <<"SHOW TABLES IN", accelerationFormData.dataSource,
                   accelerationFormData.database>>)},
             !.nJobs = @ + 1]

\* useEffect(..., []), useEffect(..., [dataSource]), useEffect(..., [database])
useEffectMount(st) ==
  IF "mount" \in effects.deps THEN loadDataSource(st) ELSE st
\* Mutant of useEffectDataSource: the guard on the empty value is missing.
useEffectDataSourceUnguarded(st) ==
  IF "dataSource" \in effects.deps THEN loadDatabases(st) ELSE st

useEffectDataSource(st) ==
  IF "dataSource" \in effects.deps /\ accelerationFormData.dataSource # ""
  THEN loadDatabases(st) ELSE st
useEffectDatabase(st) ==
  IF "database" \in effects.deps /\ accelerationFormData.database # ""
  THEN loadTables(st) ELSE st

\* The passive effects of the last commit, run in source order.
FlushEffects ==
  /\ effects.deps # {}
  /\ LET st == useEffectDatabase(useEffectDataSource(useEffectMount(Cells)))
     IN  /\ loadingComboBoxes' = st.lc
         /\ listing' = st.listing
         /\ jobs' = st.jobs
         /\ nJobs' = st.nJobs
  /\ effects' = NoEffects
  /\ ev' = Ev("effects", "none", NoJob, "none", effects.deps)
  /\ UNCHANGED newest
  /\ UNCHANGED <<accelerationFormData, dataConnections, selectedDataConnection,
                 databases, selectedDatabase, tables, selectedTable, modalVars>>
  /\ toasts' = <<>>

\* Mutant of S3GlueOptions: the connector is compared without toUpperCase.
S3GlueOptionsCaseSensitive(data) ==
  LET kept == SelectSeq(data, LAMBDA connection :
                          connection.connector = S3GLUE)
  IN  [i \in DOMAIN kept |-> Option(kept[i].name)]

\* The filter and map of the .then of http.get('/api/get_datasources')
S3GlueOptions(data) ==
  LET kept == SelectSeq(data, LAMBDA connection :
                          toUpperCase(connection.connector) = S3GLUE)
  IN  [i \in DOMAIN kept |-> Option(kept[i].name)]

\* .then of http.get('/api/get_datasources')
ListingThen(data) ==
  /\ listing = "pending"
  /\ listing' = "done"
  /\ dataConnections' = S3GlueOptions(data)
  /\ ev' = Ev("listingThen", "dataSource", NoJob, "ok", data)
  /\ UNCHANGED newest
  /\ UNCHANGED <<accelerationFormData, selectedDataConnection, databases,
                 selectedDatabase, tables, selectedTable, loadingComboBoxes,
                 effects, jobs, nJobs, modalVars>>
  /\ toasts' = <<>>

\* Mutant of ListingCatch: the failure is swallowed without a toast.
ListingCatchSilent ==
  /\ listing = "pending"
  /\ listing' = "done"
  /\ toasts' = <<>>
  /\ ev' = Ev("listingCatch", "dataSource", NoJob, "error", <<>>)
  /\ UNCHANGED newest
  /\ UNCHANGED <<accelerationFormData, dataConnections, selectedDataConnection,
                 databases, selectedDatabase, tables, selectedTable,
                 loadingComboBoxes, effects, jobs, nJobs, modalVars>>

\* .catch of http.get('/api/get_datasources')
ListingCatch ==
  /\ listing = "pending"
  /\ listing' = "done"
  /\ toasts' = <<"ERROR: failed to load datasources">>
  /\ ev' = Ev("listingCatch", "dataSource", NoJob, "error", <<>>)
  /\ UNCHANGED newest
  /\ UNCHANGED <<accelerationFormData, dataConnections, selectedDataConnection,
                 databases, selectedDatabase, tables, selectedTable,
                 loadingComboBoxes, effects, jobs, nJobs, modalVars>>

\* The callback handed to getJobId by loadDatabases / loadTables.
GetJobIdCallback(j, id) ==
  /\ j \in jobs /\ j.stage = "getJobId"
  /\ toasts' = IF id = "undefined" THEN <<errorMessage(j.kind)>> ELSE <<>>
  /\ jobs' = (jobs \ {j}) \cup {[j EXCEPT !.stage = "poll", !.jobId = id]}
  /\ ev' = Ev("getJobId", j.kind, j, id, <<>>)
  /\ UNCHANGED newest
  /\ UNCHANGED <<accelerationFormData, dataConnections, selectedDataConnection,
                 databases, selectedDatabase, tables, selectedTable,
                 loadingComboBoxes, effects, listing, nJobs,
                 modalVars>>

\* The record of SUCCESS polls after the poll of refresh j delivered status.
NoneLanded == [database |-> 0, dataTable |-> 0]
NewestAfter(j, status) ==
  IF status = "SUCCESS" /\ j.id > newest[j.kind]
  THEN [newest EXCEPT ![j.kind] = j.id]
  ELSE newest

\* databaseOptions of the SUCCESS branch: subArray[0] of every row.
DatabaseOptions(results) ==
  IF Len(results) > 0
  THEN [i \in DOMAIN results |-> Option(results[i][1])]
  ELSE <<>>

\* Mutant of dataTableOptions: the label is subArray[0], not subArray[1].
DataTableOptionsFirstColumn(results) ==
  IF Len(results) > 0
  THEN [i \in DOMAIN results |-> Option(results[i][1])]
  ELSE <<>>

\* dataTableOptions of the SUCCESS branch: subArray[1] of every row.
DataTableOptions(results) ==
  IF Len(results) > 0
  THEN [i \in DOMAIN results |-> Option(results[i][2])]
  ELSE <<>>

\* Mutant of DatabasesPollCallback: the FAILED branch emits the toast but
\* does not clear the loading flag.
DatabasesPollCallbackKeepsFlag(j, data) ==
  /\ j \in jobs /\ j.stage = "poll" /\ j.kind = "database"
  /\ databases' =
       IF data.status = "SUCCESS" THEN DatabaseOptions(data.results)
       ELSE databases
  /\ loadingComboBoxes' =
       IF data.status = "SUCCESS"
       THEN [j.lc EXCEPT !.database = FALSE]
       ELSE loadingComboBoxes
  /\ toasts' = IF data.status = "FAILED"
               THEN <<errorMessage("database")>> ELSE <<>>
  /\ jobs' = jobs \ {j}
  /\ ev' = Ev("poll", "database", j, data.status, data.results)
  /\ newest' = NewestAfter(j, data.status)
  /\ UNCHANGED <<accelerationFormData, dataConnections, selectedDataConnection,
                 selectedDatabase, tables, selectedTable, effects,
                 listing, nJobs, modalVars>>

\* Mutant of DatabasesPollCallback: a result is applied only when no refresh
\* dispatched later has already delivered its own.
DatabasesPollCallbackNewestWins(j, data) ==
  /\ j \in jobs /\ j.stage = "poll" /\ j.kind = "database"
  /\ databases' =
       IF data.status = "SUCCESS" /\ j.id > newest.database
       THEN DatabaseOptions(data.results)
       ELSE databases
  /\ loadingComboBoxes' =
       IF data.status \in {"SUCCESS", "FAILED"}
       THEN [j.lc EXCEPT !.database = FALSE]
       ELSE loadingComboBoxes
  /\ toasts' = IF data.status = "FAILED"
               THEN <<errorMessage("database")>> ELSE <<>>
  /\ jobs' = jobs \ {j}
  /\ ev' = Ev("poll", "database", j, data.status, data.results)
  /\ newest' = NewestAfter(j, data.status)
  /\ UNCHANGED <<accelerationFormData, dataConnections, selectedDataConnection,
                 selectedDatabase, tables, selectedTable, effects,
                 listing, nJobs, modalVars>>

\* The callback handed to pollQueryStatus by loadDatabases.
DatabasesPollCallback(j, data) ==
  /\ j \in jobs /\ j.stage = "poll" /\ j.kind = "database"
  /\ databases' =
       IF data.status = "SUCCESS" THEN DatabaseOptions(data.results)
       ELSE databases
  /\ loadingComboBoxes' =
       IF data.status \in {"SUCCESS", "FAILED"}
       THEN [j.lc EXCEPT !.database = FALSE]
       ELSE loadingComboBoxes
  /\ toasts' = IF data.status = "FAILED"
               THEN <<errorMessage("database")>> ELSE <<>>
  /\ jobs' = jobs \ {j}
  /\ ev' = Ev("poll", "database", j, data.status, data.results)
  /\ newest' = NewestAfter(j, data.status)
  /\ UNCHANGED <<accelerationFormData, dataConnections, selectedDataConnection,
                 selectedDatabase, tables, selectedTable, effects,
                 listing, nJobs, modalVars>>

\* The callback handed to pollQueryStatus by loadTables.
TablesPollCallback(j, data) ==
  /\ j \in jobs /\ j.stage = "poll" /\ j.kind = "dataTable"
  /\ tables' =
       IF data.status = "SUCCESS" THEN DataTableOptions(data.results)
       ELSE tables
  /\ loadingComboBoxes' =
       IF data.status \in {"SUCCESS", "FAILED"}
       THEN [j.lc EXCEPT !.dataTable = FALSE]
       ELSE loadingComboBoxes
  /\ toasts' = IF data.status = "FAILED"
               THEN <<errorMessage("dataTable")>> ELSE <<>>
  /\ jobs' = jobs \ {j}
  /\ ev' = Ev("poll", "dataTable", j, data.status, data.results)
  /\ newest' = NewestAfter(j, data.status)
  /\ UNCHANGED <<accelerationFormData, dataConnections, selectedDataConnection,
                 databases, selectedDatabase, selectedTable, effects,
                 listing, nJobs, modalVars>>

\* The dependency arrays of the effects, compared at commit.
ChangedDeps(old, new) ==
  {d \in {"dataSource", "database"} : old[d] # new[d]}

\* The commit that follows a change of the form: it schedules the effects
\* whose dependencies changed, with the functions of this render.
Commit(old, new) ==
  IF ChangedDeps(old, new) = {} THEN NoEffects
  ELSE [deps |-> ChangedDeps(old, new), closure |-> loadingComboBoxes]

\* What a single-selection combo box can hand to onChange.
ChangeEvents(options) == {<<>>} \cup {<<o>> : o \in Range(options)}

\* Mutant of OnChangeDataSource: dataSourceError is not recomputed.
OnChangeDataSourceKeepsError(dataConnectionOptions) ==
  /\ effects.deps = {} /\ nJobs < MaxJobs
  /\ ev' = Ev("onChange", "dataSource", NoJob, "none", dataConnectionOptions)
  /\ UNCHANGED newest
  /\ IF Len(dataConnectionOptions) > 0
     THEN LET accData ==
                [accelerationFormData EXCEPT
                   !.dataSource = dataConnectionOptions[1].label]
          IN  /\ accelerationFormData' = accData
              /\ selectedDataConnection' = dataConnectionOptions
              /\ effects' = Commit(accelerationFormData, accData)
     ELSE UNCHANGED <<accelerationFormData, selectedDataConnection, effects>>
  /\ UNCHANGED <<dataConnections, databases, selectedDatabase, tables,
                 selectedTable, loadingComboBoxes, listing, jobs, nJobs,
                 modalVars>>
  /\ toasts' = <<>>

\* Mutant of OnChangeDataSource: a new data source also resets the database
\* and the table of the form and their displayed selections.
OnChangeDataSourceResetsDownstream(dataConnectionOptions) ==
  /\ effects.deps = {} /\ nJobs < MaxJobs
  /\ ev' = Ev("onChange", "dataSource", NoJob, "none", dataConnectionOptions)
  /\ UNCHANGED newest
  /\ IF Len(dataConnectionOptions) > 0
     THEN LET accData ==
                [accelerationFormData EXCEPT
                   !.dataSource = dataConnectionOptions[1].label,
                   !.database = "",
                   !.dataTable = "",
                   !.formErrors.dataSourceError =
                      validateDataSource(dataConnectionOptions[1].label)]
          IN  /\ accelerationFormData' = accData
              /\ selectedDataConnection' = dataConnectionOptions
              /\ selectedDatabase' = <<>>
              /\ selectedTable' = <<>>
              /\ effects' = Commit(accelerationFormData, accData)
     ELSE UNCHANGED <<accelerationFormData, selectedDataConnection,
                      selectedDatabase, selectedTable, effects>>
  /\ UNCHANGED <<dataConnections, databases, tables, loadingComboBoxes,
                 listing, jobs, nJobs, modalVars>>
  /\ toasts' = <<>>

\* onChange of the data source combo box.
OnChangeDataSource(dataConnectionOptions) ==
  /\ effects.deps = {} /\ nJobs < MaxJobs   \* MaxJobs bounds the behaviour
  /\ ev' = Ev("onChange", "dataSource", NoJob, "none", dataConnectionOptions)
  /\ UNCHANGED newest
  /\ IF Len(dataConnectionOptions) > 0
     THEN LET accData ==
                [accelerationFormData EXCEPT
                   !.dataSource = dataConnectionOptions[1].label,
                   !.formErrors.dataSourceError =
                      validateDataSource(dataConnectionOptions[1].label)]
          IN  /\ accelerationFormData' = accData
              /\ selectedDataConnection' = dataConnectionOptions
              /\ effects' = Commit(accelerationFormData, accData)
     ELSE UNCHANGED <<accelerationFormData, selectedDataConnection, effects>>
  /\ UNCHANGED <<dataConnections, databases, selectedDatabase, tables,
                 selectedTable, loadingComboBoxes, listing, jobs, nJobs,
                 modalVars>>
  /\ toasts' = <<>>

\* onChange of the database combo box.
OnChangeDatabase(databaseOptions) ==
  /\ effects.deps = {} /\ nJobs < MaxJobs   \* MaxJobs bounds the behaviour
  /\ ev' = Ev("onChange", "database", NoJob, "none", databaseOptions)
  /\ UNCHANGED newest
  /\ IF Len(databaseOptions) > 0
     THEN LET accData ==
                [accelerationFormData EXCEPT
                   !.database = databaseOptions[1].label,
                   !.formErrors.databaseError =
                      validateDataSource(databaseOptions[1].label)]
          IN  /\ accelerationFormData' = accData
              /\ selectedDatabase' = databaseOptions
              /\ effects' = Commit(accelerationFormData, accData)
     ELSE UNCHANGED <<accelerationFormData, selectedDatabase, effects>>
  /\ UNCHANGED <<dataConnections, selectedDataConnection, databases, tables,
                 selectedTable, loadingComboBoxes, listing, jobs, nJobs,
                 modalVars>>
  /\ toasts' = <<>>

\* onChange of the table combo box.
OnChangeTable(tableOptions) ==
  /\ effects.deps = {}
  /\ ev' = Ev("onChange", "dataTable", NoJob, "none", tableOptions)
  /\ UNCHANGED newest
  /\ IF Len(tableOptions) > 0
     THEN LET accData ==
                [accelerationFormData EXCEPT
                   !.dataTable = tableOptions[1].label,
                   !.formErrors.dataTableError =
                      validateDataSource(tableOptions[1].label)]
          IN  /\ accelerationFormData' = accData
              /\ selectedTable' = tableOptions
              /\ effects' = Commit(accelerationFormData, accData)
     ELSE UNCHANGED <<accelerationFormData, selectedTable, effects>>
  /\ UNCHANGED <<dataConnections, selectedDataConnection, databases,
                 selectedDatabase, tables, loadingComboBoxes, listing, jobs,
                 nJobs, modalVars>>
  /\ toasts' = <<>>

Validated(ds, db, tb) ==
  [dataSourceError |-> validateDataSource(ds),
   databaseError |-> validateDataSource(db),
   dataTableError |-> validateDataSource(tb)]
NoErrors == [dataSourceError |-> "", databaseError |-> "", dataTableError |-> ""]

InitForm(ds, db, errs, fields, skipping) ==
  [dataSource |-> ds, database |-> db, dataTable |-> "",
   dataTableFields |-> fields, skippingIndexQueryData |-> skipping,
   formErrors |-> errs]

\* Forms at mount: pristine, pristine and already validated by the parent,
\* or opened with a data source (and database) chosen earlier.
InitForms ==
  {InitForm("", "", NoErrors, <<>>, <<>>),
   InitForm("", "", Validated("", "", ""), <<>>, <<>>),
   InitForm("A", "", NoErrors, <<>>, <<>>),
   InitForm("A", "A", NoErrors, <<>>, <<>>)}

\* The selectedDatasource prop: the data source the parent opened the form for.
PreSelected(ds) == IF ds = "" THEN <<>> ELSE <<Option(ds)>>

Init ==
  /\ accelerationFormData \in InitForms
  /\ dataConnections = <<>>
  /\ LET selectedDatasource == PreSelected(accelerationFormData.dataSource)
     IN  selectedDataConnection =
           IF Len(selectedDatasource) > 0
           THEN <<Option(selectedDatasource[1].label)>> ELSE <<>>
  /\ databases = <<>> /\ selectedDatabase = <<>>
  /\ tables = <<>> /\ selectedTable = <<>>
  /\ loadingComboBoxes = NoFlags
  /\ effects = [deps |-> {"mount", "dataSource", "database"},
                closure |-> NoFlags]
  /\ listing = "idle"
  /\ jobs = {} /\ nJobs = 0
  /\ toasts = <<>>
  /\ isAddModalVisible = FALSE /\ selectedFields = <<>> /\ items = <<>>
  /\ ev = Ev("init", "none", NoJob, "none", <<>>)
  /\ newest = NoneLanded

JobIds == {"job", "undefined"}
PollData == [status : {"FAILED"}, results : {<<>>}]
              \cup [status : {"SUCCESS"}, results : ResultSets]

Next ==
  \/ FlushEffects
  \/ \E data \in Responses : ListingThen(data)
  \/ ListingCatch
  \/ \E j \in jobs, id \in JobIds : GetJobIdCallback(j, id)
  \/ \E j \in jobs, data \in PollData : DatabasesPollCallback(j, data)
  \/ \E j \in jobs, data \in PollData : TablesPollCallback(j, data)
  \/ \E o \in ChangeEvents(dataConnections) : OnChangeDataSource(o)
  \/ \E o \in ChangeEvents(databases) : OnChangeDatabase(o)
  \/ \E o \in ChangeEvents(tables) : OnChangeTable(o)

Spec == Init /\ [][Next]_vars

\* ========================================================= AddFieldsModal
\* Field descriptors of the chosen table; two of them share a field name.
Field(id, name) == [id |-> id, fieldName |-> name, dataType |-> "string"]
FieldUniverse == {Field(1, "x"), Field(2, "y"), Field(3, "x")}

\* { ...x, accelerationMethod: method }
WithMethod(x, method) == ("accelerationMethod" :> method) @@ x

\* Mutant of differenceBy: whole values are compared (_.difference).
differenceByValue(array, values, iteratee) ==
  SelectSeq(array, LAMBDA x : x \notin Range(values))

\* _.differenceBy(array, values, iteratee) with a property-name iteratee
differenceBy(array, values, iteratee) ==
  LET excluded == {values[k][iteratee] : k \in DOMAIN values}
  IN  SelectSeq(array, LAMBDA x : x[iteratee] \notin excluded)

\* Mutant of TableItems: every field of the table is offered.
TableItemsAll(form) ==
  form.dataTableFields

\* The items prop of the table, as rendered from the current form.
TableItems(form) ==
  differenceBy(form.dataTableFields, form.skippingIndexQueryData, "id")

\* The parent shows the modal: the component mounts with no row selected.
OpenModal ==
  /\ ~isAddModalVisible
  /\ isAddModalVisible' = TRUE
  /\ selectedFields' = <<>>
  /\ items' = TableItems(accelerationFormData)
  /\ ev' = Ev("open", "modal", NoJob, "none", <<>>)
  /\ UNCHANGED newest
  /\ toasts' = <<>>
  /\ UNCHANGED <<accelerationFormData, dataConnections, selectedDataConnection,
                 databases, selectedDatabase, tables, selectedTable,
                 loadingComboBoxes, effects, listing, jobs, nJobs>>

\* Rows ticked in the table: distinct rows of items, in the order ticked.
Selections(rows) ==
  {[n \in DOMAIN ix |-> rows[ix[n]]] :
     ix \in {s \in SeqsUpTo(DOMAIN rows, MaxSelected) :
               \A a, b \in DOMAIN s : a # b => s[a] # s[b]}}

\* selection.onSelectionChange
OnSelectionChange(selected) ==
  /\ isAddModalVisible
  /\ selectedFields' = selected
  /\ ev' = Ev("select", "modal", NoJob, "none", selected)
  /\ UNCHANGED newest
  /\ toasts' = <<>>
  /\ UNCHANGED <<accelerationFormData, dataConnections, selectedDataConnection,
                 databases, selectedDatabase, tables, selectedTable,
                 loadingComboBoxes, effects, listing, jobs, nJobs,
                 isAddModalVisible, items>>

\* onClose of the modal and onClick of Cancel; the modal unmounts.
CancelModal ==
  /\ isAddModalVisible
  /\ isAddModalVisible' = FALSE
  /\ selectedFields' = <<>> /\ items' = <<>>
  /\ ev' = Ev("cancel", "modal", NoJob, "none", selectedFields)
  /\ UNCHANGED newest
  /\ toasts' = <<>>
  /\ UNCHANGED <<accelerationFormData, dataConnections, selectedDataConnection,
                 databases, selectedDatabase, tables, selectedTable,
                 loadingComboBoxes, effects, listing, jobs, nJobs>>

\* Mutant of AddFields: the previous entries are not spread into the list.
AddFieldsReplacesList ==
  /\ isAddModalVisible
  /\ accelerationFormData' =
       [accelerationFormData EXCEPT !.skippingIndexQueryData =
          [n \in DOMAIN selectedFields |->
             WithMethod(selectedFields[n], "PARTITION")]]
  /\ isAddModalVisible' = FALSE
  /\ selectedFields' = <<>> /\ items' = <<>>
  /\ ev' = Ev("add", "modal", NoJob, "none", selectedFields)
  /\ UNCHANGED newest
  /\ toasts' = <<>>
  /\ UNCHANGED <<dataConnections, selectedDataConnection, databases,
                 selectedDatabase, tables, selectedTable, loadingComboBoxes,
                 effects, listing, jobs, nJobs>>

\* onClick of Add; the modal unmounts.
AddFields ==
  /\ isAddModalVisible
  /\ accelerationFormData' =
       [accelerationFormData EXCEPT !.skippingIndexQueryData =
          accelerationFormData.skippingIndexQueryData
            \o [n \in DOMAIN selectedFields |->
                  WithMethod(selectedFields[n], "PARTITION")]]
  /\ isAddModalVisible' = FALSE
  /\ selectedFields' = <<>> /\ items' = <<>>
  /\ ev' = Ev("add", "modal", NoJob, "none", selectedFields)
  /\ UNCHANGED newest
  /\ toasts' = <<>>
  /\ UNCHANGED <<dataConnections, selectedDataConnection, databases,
                 selectedDatabase, tables, selectedTable, loadingComboBoxes,
                 effects, listing, jobs, nJobs>>

\* The form when the skipping-index step is reached: source, database and
\* table chosen, the table's fields known, and possibly one field already in
\* the index with a method other than the modal's.
ModalForms ==
  {[InitForm("A", "A", NoErrors, fields, skipping) EXCEPT !.dataTable = "B"] :
     fields \in SeqsUpTo(FieldUniverse, MaxFields),
     skipping \in {<<>>} \cup {<<WithMethod(f, "MIN_MAX")>> : f \in FieldUniverse}}

ModalInit ==
  /\ accelerationFormData \in ModalForms
  /\ dataConnections = <<Option("A")>>
  /\ selectedDataConnection = <<Option("A")>>
  /\ databases = <<Option("A")>> /\ selectedDatabase = <<Option("A")>>
  /\ tables = <<Option("B")>> /\ selectedTable = <<Option("B")>>
  /\ loadingComboBoxes = NoFlags
  /\ effects = NoEffects
  /\ listing = "done"
  /\ jobs = {} /\ nJobs = 0
  /\ toasts = <<>>
  /\ isAddModalVisible = FALSE /\ selectedFields = <<>> /\ items = <<>>
  /\ ev = Ev("init", "none", NoJob, "none", <<>>)
  /\ newest = NoneLanded

ModalNext ==
  \/ OpenModal
  \/ \E selected \in Selections(items) : OnSelectionChange(selected)
  \/ CancelModal
  \/ AddFields

ModalSpec == ModalInit /\ [][ModalNext]_vars

\* ============================================================= properties
form == accelerationFormData
IsPoll(e, status) == e.op = "poll" /\ e.status = status
OptionList(kind) == IF kind = "database" THEN databases ELSE tables

\* The query a refresh of `kind` would carry for the present selection.
CurrentQuery(kind) ==
  IF kind = "database" THEN <<"SHOW SCHEMAS IN", form.dataSource>>
  ELSE <<"SHOW TABLES IN", form.dataSource, form.database>>

\* C1 (as claimed): a SUCCESS result is applied to an option list only when
\* the refresh that delivers it was issued for the parent value that is
\* selected at that moment; the result of a superseded refresh is dropped.
C1_StaleResultNeverApplied ==
  IsPoll(ev, "SUCCESS") => ev.job.query = CurrentQuery(ev.kind)

\* C2 (as claimed): a loading flag is true only while a fetch/poll of its
\* selector is dispatched and has not reached its terminal callback.
C2_FlagOnlyWhileInFlight ==
  /\ loadingComboBoxes.dataSource => listing = "pending"
  /\ loadingComboBoxes.database => \E j \in jobs : j.kind = "database"
  /\ loadingComboBoxes.dataTable => \E j \in jobs : j.kind = "dataTable"

\* C3 (as claimed): a refresh whose job identifier came back undefined emits
\* an error notification and never populates its option list, whatever the
\* poll reports afterwards.
C3_UndefinedJobNeverPopulates ==
  [][/\ (ev'.op = "getJobId" /\ ev'.status = "undefined")
          => errorMessage(ev'.kind) \in Range(toasts')
     /\ (ev'.op = "poll" /\ ev'.job.jobId = "undefined")
          => (databases' = databases /\ tables' = tables)]_vars

\* C4: a terminal FAILED leaves the option list of its selector unchanged,
\* leaves that selector's loading flag false, emits the error notification
\* and changes no field of the form.
C4_FailedPoll ==
  [][IsPoll(ev', "FAILED") =>
       /\ (ev'.kind = "database" => databases' = databases)
       /\ (ev'.kind = "dataTable" => tables' = tables)
       /\ ~loadingComboBoxes'[ev'.kind]
       /\ errorMessage(ev'.kind) \in Range(toasts')
       /\ accelerationFormData' = accelerationFormData]_vars

\* C4 witness: a database refresh failed while the list held the options
\* of an earlier refresh.
C4_Witness ==
  /\ IsPoll(ev, "FAILED") /\ ev.kind = "database"
  /\ databases # <<>>

\* C5: a SUCCESS with N rows replaces the option list by N options in row
\* order, labelled by column 0 (databases) or column 1 (tables).
C5_SuccessReplacesOptions ==
  IsPoll(ev, "SUCCESS") =>
    LET rows == ev.arg
        column == IF ev.kind = "database" THEN 1 ELSE 2
        list == OptionList(ev.kind)
    IN  /\ Len(list) = Len(rows)
        /\ \A n \in 1..Len(rows) : list[n] = [label |-> rows[n][column]]

\* C5 witness: a table refresh delivered two different rows.
C5_Witness ==
  /\ IsPoll(ev, "SUCCESS") /\ ev.kind = "dataTable"
  /\ Len(ev.arg) = 2 /\ ev.arg[1] # ev.arg[2]

\* C6: the data-source options are, in response order, one {label: name}
\* for exactly the connections whose connector is "S3GLUE" ignoring case.
LowerOf(c) ==
  CASE c = "S" -> "s" [] c = "G" -> "g" [] c = "L" -> "l" [] c = "U" -> "u"
    [] c = "E" -> "e" [] OTHER -> c
EqualsIgnoreCase(a, b) ==
  /\ Len(a) = Len(b)
  /\ \A i \in 1..Len(a) : LowerOf(a[i]) = LowerOf(b[i])
NthOf(S, n) == CHOOSE i \in S : Cardinality({m \in S : m <= i}) = n

C6_OnlyS3Glue ==
  ev.op = "listingThen" =>
    LET data == ev.arg
        glue == {i \in DOMAIN data : EqualsIgnoreCase(data[i].connector, S3GLUE)}
    IN  /\ Len(dataConnections) = Cardinality(glue)
        /\ \A n \in 1..Len(dataConnections) :
             dataConnections[n] = [label |-> data[NthOf(glue, n)].name]

\* C6 witness: a response with a lower-case s3glue connection after a
\* connection of another kind.
C6_Witness ==
  /\ ev.op = "listingThen" /\ Len(ev.arg) = 2
  /\ ev.arg[1].connector = <<"p", "r", "o", "m">>
  /\ ev.arg[2].connector = <<"s", "3", "g", "l", "u", "e">>

\* C7: a change event with a non-empty array sets the selector's form field
\* to the first label, its error to the validator's result for that label
\* and the displayed selection to the array; an empty array changes nothing.
ErrorField(kind) ==
  CASE kind = "dataSource" -> "dataSourceError"
    [] kind = "database" -> "databaseError"
    [] kind = "dataTable" -> "dataTableError"
Displayed ==
  [dataSource |-> selectedDataConnection, database |-> selectedDatabase,
   dataTable |-> selectedTable]

C7_ChangeEvent ==
  [][ev'.op = "onChange" =>
       IF Len(ev'.arg) > 0
       THEN /\ accelerationFormData'[ev'.kind] = ev'.arg[1].label
            /\ accelerationFormData'.formErrors[ErrorField(ev'.kind)]
                 = validateDataSource(ev'.arg[1].label)
            /\ Displayed'[ev'.kind] = ev'.arg
       ELSE /\ accelerationFormData' = accelerationFormData
            /\ Displayed' = Displayed]_vars

\* C7 witness: a data source was chosen on a form whose empty fields the
\* parent had flagged; the data source error is gone, the others remain.
C7_Witness ==
  /\ ev.op = "onChange" /\ ev.kind = "dataSource" /\ Len(ev.arg) > 0
  /\ form.formErrors.dataSourceError = ""
  /\ form.formErrors.databaseError = "invalid"

\* C8: while the modal is shown, the candidates it offers are the fields of
\* dataTableFields whose id is no id of skippingIndexQueryData, so a field
\* already in the index is never offered.
IdsOf(seq) == {seq[k].id : k \in DOMAIN seq}
C8_Candidates ==
  isAddModalVisible =>
    /\ Range(items) = {f \in Range(form.dataTableFields) :
                         f.id \notin IdsOf(form.skippingIndexQueryData)}
    /\ IdsOf(items) \cap IdsOf(form.skippingIndexQueryData) = {}

\* C8 witness: the modal is shown again after an Add; a field added before
\* is withheld and another one is offered.
C8_Witness ==
  /\ isAddModalVisible /\ items # <<>>
  /\ \E k \in DOMAIN form.skippingIndexQueryData :
       /\ form.skippingIndexQueryData[k].accelerationMethod = "PARTITION"
       /\ form.skippingIndexQueryData[k].id \in IdsOf(form.dataTableFields)

\* C9: Add with K rows selected appends exactly K entries, the selected
\* fields stamped "PARTITION", changes no other form field and closes the
\* modal; Cancel closes the modal and changes nothing of the form.
Stamped(x, entry) ==
  /\ DOMAIN entry = DOMAIN x \cup {"accelerationMethod"}
  /\ \A f \in DOMAIN x : entry[f] = x[f]
  /\ entry.accelerationMethod = "PARTITION"

C9_AddAndCancel ==
  [][/\ ev'.op = "add" =>
          LET old == accelerationFormData.skippingIndexQueryData
              new == accelerationFormData'.skippingIndexQueryData
              K == Len(selectedFields)
          IN  /\ Len(new) = Len(old) + K
              /\ \A n \in 1..Len(old) : new[n] = old[n]
              /\ \A n \in 1..K : Stamped(selectedFields[n], new[Len(old) + n])
              /\ \A f \in DOMAIN accelerationFormData \ {"skippingIndexQueryData"} :
                   accelerationFormData'[f] = accelerationFormData[f]
              /\ ~isAddModalVisible'
     /\ ev'.op = "cancel" =>
          /\ accelerationFormData' = accelerationFormData
          /\ ~isAddModalVisible']_vars

\* C9 witness: two rows were added to an index that already held a field.
C9_Witness ==
  /\ ev.op = "add" /\ Len(ev.arg) = 2
  /\ Len(form.skippingIndexQueryData) = 3
  /\ form.skippingIndexQueryData[1].accelerationMethod = "MIN_MAX"

\* C10 (as claimed): from its dispatch to its terminal callback a refresh
\* keeps the loading flag of its selector true.
C10_FlagHeldUntilTerminal ==
  \A j \in jobs : loadingComboBoxes[j.kind]

\* The refreshes dispatched by a step: the jobs with a fresh id.
Dispatched(kind) == {j \in jobs' : j.id > nJobs /\ j.kind = kind}

\* C11: a database (table) refresh is dispatched exactly by the effect that
\* a new value of the form's dataSource (database) schedules, or by mount,
\* and only when that value is non-empty; it is one job, submitted once,
\* querying the schemas of dataSource (the tables of dataSource.database) as
\* they are at dispatch; no other step, such as a failure, submits a job.
C11_RefreshDispatch ==
  [][/\ ev'.op = "onChange" =>
          \A d \in {"dataSource", "database"} :
            d \in effects'.deps <=> accelerationFormData'[d] # accelerationFormData[d]
     /\ (effects'.deps # {} /\ effects' # effects) => ev'.op = "onChange"
     /\ Dispatched("database") # {} <=>
          (ev'.op = "effects" /\ "dataSource" \in effects.deps
             /\ form.dataSource # "")
     /\ Dispatched("dataTable") # {} <=>
          (ev'.op = "effects" /\ "database" \in effects.deps
             /\ form.database # "")
     /\ \A kind \in {"database", "dataTable"} :
          /\ Cardinality(Dispatched(kind)) <= 1
          /\ \A j \in Dispatched(kind) :
               j.query = CurrentQuery(kind) /\ j.stage = "getJobId"
     /\ nJobs' - nJobs
          = Cardinality(Dispatched("database") \cup Dispatched("dataTable"))]_vars

\* C11 witness: the effect of a newly chosen data source has just dispatched
\* the database refresh for it, after an earlier refresh for another source.
C11_Witness ==
  /\ ev.op = "effects" /\ ev.arg = {"dataSource"}
  /\ \E j \in jobs : /\ j.id = nJobs /\ j.id > 1 /\ j.kind = "database"
                     /\ j.query = <<"SHOW SCHEMAS IN", "B">>
  /\ form.dataSource = "B"

\* C12: choosing a data source changes, of the form, only dataSource and
\* dataSourceError; database, dataTable, the displayed database and table
\* and both option lists keep their values, and no table refresh follows
\* unless the database value itself changes (or the component mounts).
C12_DataSourceChangeFrame ==
  [][/\ (ev'.op = "onChange" /\ ev'.kind = "dataSource" /\ Len(ev'.arg) > 0) =>
          /\ \A f \in DOMAIN accelerationFormData \ {"dataSource", "formErrors"} :
               accelerationFormData'[f] = accelerationFormData[f]
          /\ \A e \in {"databaseError", "dataTableError"} :
               accelerationFormData'.formErrors[e]
                 = accelerationFormData.formErrors[e]
          /\ selectedDatabase' = selectedDatabase
          /\ selectedTable' = selectedTable
          /\ databases' = databases /\ tables' = tables
          /\ "database" \notin effects'.deps
     /\ Dispatched("dataTable") # {} => "database" \in effects.deps]_vars

\* C12 witness: data source B was chosen while the form still names a
\* database and a table of the earlier source and both lists hold options.
C12_Witness ==
  /\ ev.op = "onChange" /\ ev.kind = "dataSource"
  /\ form.dataSource = "B" /\ form.database = "A" /\ form.dataTable # ""
  /\ selectedDataConnection = <<Option("B")>>
  /\ selectedDatabase = <<Option("A")>> /\ selectedTable # <<>>
  /\ databases # <<>> /\ tables # <<>>
  /\ effects.deps = {"dataSource"}

\* The options a result set yields for a selector.
Labelled(kind, rows) ==
  [n \in 1..Len(rows) |->
     [label |-> rows[n][IF kind = "database" THEN 1 ELSE 2]]]

\* C13: an option list changes only in a SUCCESS callback of its own
\* selector, and every such callback leaves the list equal to the result it
\* delivered, also when a refresh dispatched later has delivered before it:
\* the list is the result of whichever callback fired last.
C13_LastCallbackWins ==
  [][\A kind \in {"database", "dataTable"} :
       /\ (IsPoll(ev', "SUCCESS") /\ ev'.kind = kind) =>
             (OptionList(kind))' = Labelled(kind, ev'.arg)
       /\ (OptionList(kind))' # OptionList(kind) =>
             (IsPoll(ev', "SUCCESS") /\ ev'.kind = kind)]_vars

\* C13 witness: two database refreshes were in flight together, the later
\* one delivered SUCCESS first, and the earlier one has just delivered a
\* non-empty result for a data source that is no longer the form's.
C13_Witness ==
  /\ IsPoll(ev, "SUCCESS") /\ ev.kind = "database"
  /\ ev.job.id < newest.database
  /\ ev.job.query # CurrentQuery("database")
  /\ ev.arg # <<>> /\ databases = Labelled("database", ev.arg)

\* C14: the datasource listing is requested by the mount effect and by no
\* other step, so exactly once; that step ends with the dataSource flag
\* false while the request is still pending; the request's success or
\* failure callback settles the request and changes no loading flag.
C14_ListingFireAndForget ==
  [][/\ (listing' = "pending" /\ listing # "pending") <=>
          (ev'.op = "effects" /\ "mount" \in effects.deps)
     /\ "mount" \notin effects'.deps
     /\ (ev'.op = "effects" /\ "mount" \in effects.deps) =>
          /\ listing = "idle" /\ listing' = "pending"
          /\ ~loadingComboBoxes'.dataSource
     /\ listing' # "idle"
     /\ ev'.op \in {"listingThen", "listingCatch"} =>
          /\ listing = "pending" /\ listing' = "done"
          /\ loadingComboBoxes' = loadingComboBoxes]_vars

\* C14 witness: mount has run, the listing is unresolved, the flag is off.
C14_Witness ==
  /\ ev.op = "effects" /\ "mount" \in ev.arg
  /\ listing = "pending"
  /\ ~loadingComboBoxes.dataSource

\* C15: a failed datasource listing emits the datasource error toast, leaves
\* the data-source options empty as they were, changes no field of the form
\* and neither submits a job nor schedules an effect that would.
C15_ListingFailure ==
  [][ev'.op = "listingCatch" =>
       /\ toasts' = <<"ERROR: failed to load datasources">>
       /\ dataConnections = <<>> /\ dataConnections' = <<>>
       /\ accelerationFormData' = accelerationFormData
       /\ jobs' = jobs /\ nJobs' = nJobs
       /\ effects' = effects]_vars

\* C15 witness: the listing has just failed while a data source is chosen
\* in the form, which a refresh could have been dispatched for.
C15_Witness ==
  /\ ev.op = "listingCatch"
  /\ toasts = <<"ERROR: failed to load datasources">>
  /\ dataConnections = <<>>
  /\ form.dataSource # ""

\* C16 (as claimed): a submission that yields an undefined identifier emits
\* the error notification, leaves the loading flags alone and hands the
\* refresh to the poll with that identifier; while that poll is outstanding
\* the flag of its selector is cleared by no step but its own terminal
\* callback; a FAILED terminal callback emits the notification a second time
\* and leaves the flag false.
C16_UndefinedJobStillPolls ==
  [][/\ (ev'.op = "getJobId" /\ ev'.status = "undefined") =>
          /\ toasts' = <<errorMessage(ev'.kind)>>
          /\ loadingComboBoxes' = loadingComboBoxes
          /\ \E j \in jobs' : /\ j.id = ev'.job.id /\ j.stage = "poll"
                              /\ j.jobId = "undefined"
     /\ \A j \in jobs :
          (/\ j.stage = "poll" /\ j.jobId = "undefined"
           /\ loadingComboBoxes[j.kind] /\ ~loadingComboBoxes'[j.kind])
            => (ev'.op = "poll" /\ ev'.job = j)
     /\ (IsPoll(ev', "FAILED") /\ ev'.job.jobId = "undefined") =>
          /\ toasts' = <<errorMessage(ev'.kind)>>
          /\ ~loadingComboBoxes'[ev'.kind]]_vars

\* Whether the entries of a list carry pairwise distinct ids.
DistinctIds(seq) ==
  \A m, n \in DOMAIN seq : seq[m].id = seq[n].id => m = n

\* C17: when the fields of the table carry pairwise distinct ids (the index
\* starts with at most one entry, so without duplicates), no sequence of
\* open, select, Add and Cancel puts two entries with the same id in
\* skippingIndexQueryData.
C17_NoDuplicateIds ==
  DistinctIds(form.dataTableFields) => DistinctIds(form.skippingIndexQueryData)

\* C17 witness: two rows were added to an index that held one field of the
\* table, which now holds all three fields of the table once each.
C17_Witness ==
  /\ ev.op = "add" /\ Len(ev.arg) = 2
  /\ Len(form.dataTableFields) = 3 /\ DistinctIds(form.dataTableFields)
  /\ Len(form.skippingIndexQueryData) = 3
  /\ IdsOf(form.skippingIndexQueryData) = IdsOf(form.dataTableFields)

====
